---- MODULE Spec2Model ----
(***************************************************************************)
(* StellarEscrow: the escrow contract of src/src/lib.rs over the storage   *)
(* of src/src/storage.rs, as a state machine.                              *)
(*                                                                         *)
(* One step of the machine is one contract invocation.  The host runs an   *)
(* invocation to completion and keeps its storage writes, token transfers  *)
(* and events only when it returns Ok; an Err return or a trap (a failed   *)
(* require_auth, a failed token transfer) discards them all.  So a failed  *)
(* call leaves the store as it was and only its result is observable.      *)
(*                                                                         *)
(* An invocation carries the authorization of one account, `caller`, which *)
(* is also what env.invoker() returns: a.require_auth() passes iff         *)
(* a = caller.                                                             *)
(***************************************************************************)
EXTENDS Integers, Sequences, FiniteSets, TLC

\* ------------------------------------------------------------- bounds
MaxTrades == 1          \* create_trade is followed up to this many trades
MintAmount == 3         \* tokens a minted account holds at the start
MaxPayouts == 2         \* payouts out of escrow followed per trade
PairTrades == 2         \* trades of the two-trade specification
IdTrades == 3           \* trades of the trade-id specification
U64_MAX == 65535        \* u64::MAX, scaled to 16 bits so that overflow is in reach

\* ------------------------------------------------------------- program constants
MAX_FEE_BPS == 10000    \* lib.rs:34, lib.rs:86
BPS_DENOMINATOR == 10000 \* lib.rs:153

\* ------------------------------------------------------------- input sets
Addresses == {"admin", "alice", "bob", "carol"}
Admins == {"admin"}                 \* admin argument of initialize
Tokens == {"usdc"}                  \* usdc_token argument of initialize
Sellers == {"alice"}                \* seller argument of create_trade
Buyers == {"bob", "alice"}          \* buyer argument of create_trade
Minted == {"bob"}                   \* accounts holding tokens at the start
ArbitratorArgs == {"carol"}         \* addresses offered as arbitrator
Amounts == {0, 3, 30}               \* amount argument of create_trade
FeeArgs == {5000, 7500, 10001}      \* fee_bps argument of initialize / update_fee
Recipients == {"admin", "carol"}    \* to argument of withdraw_fees
Contract == "escrow"                \* env.current_contract_address()
TradeIds == 1..(MaxTrades + 1)      \* trade_id arguments, one past the last id
OptArbitrators == {{}} \cup {{a} : a \in ArbitratorArgs}  \* Option<Address> arguments

\* Option<T> as a set with at most one element.
None == {}
Some(v) == {v}
Unwrap(o) == CHOOSE v \in o : TRUE

\* types.rs
TradeStatus == {"Created", "Funded", "Completed", "Disputed", "Cancelled"}
DisputeResolution == {"ReleaseToBuyer", "ReleaseToSeller"}

VARIABLES
    instance,       \* env.storage().instance(): key -> value, absent keys not in DOMAIN
    trades,         \* persistent (TRADE, id) -> Trade
    arbitrators,    \* persistent (ARB, address) keys present
    balance,        \* the token ledger: account -> tokens
    payouts,        \* history: per trade id, the payouts that have left escrow
    last            \* the last invocation: op, trade id, caller, result, events published

vars == <<instance, trades, arbitrators, balance, payouts, last>>

\* ------------------------------------------------------------- storage.rs
EmptyStorage == [k \in {} |-> 0]
has(key) == key \in DOMAIN instance
set(inst, key, v) == [k \in DOMAIN inst \cup {key} |-> IF k = key THEN v ELSE inst[k]]

is_initialized == has("INIT")
get_admin == instance["ADMIN"]
get_usdc_token == instance["USDC"]
get_fee_bps == instance["FEE_BPS"]
get_trade_counter == instance["COUNTER"]
get_accumulated_fees == instance["ACC_FEES"]
has_trade(trade_id) == trade_id \in DOMAIN trades
get_trade(trade_id) == trades[trade_id]
save_trade(trade_id, trade) ==
    [i \in DOMAIN trades \cup {trade_id} |-> IF i = trade_id THEN trade ELSE trades[i]]
has_arbitrator(a) == a \in arbitrators

\* checked u64 arithmetic: None on overflow / underflow / division by zero
checked_add(a, b) == IF a + b > U64_MAX THEN None ELSE Some(a + b)
checked_sub(a, b) == IF a < b THEN None ELSE Some(a - b)
checked_mul_wrapping(a, b) == Some((a * b) % (U64_MAX + 1))
checked_mul(a, b) == IF a * b > U64_MAX THEN None ELSE Some(a * b)
checked_div(a, b) == IF b = 0 THEN None ELSE Some(a \div b)

\* ------------------------------------------------------------- token ledger
can_transfer(from, amount) == balance[from] >= amount
transfer(from, to, amount) ==
    IF from = to THEN balance
    ELSE [balance EXCEPT ![from] = @ - amount, ![to] = @ + amount]

\* ------------------------------------------------------------- invocation record
Call_silent(op, id, caller, result, events) ==
    [op |-> op, id |-> id, caller |-> caller, result |-> result, events |-> <<>>]
Call(op, id, caller, result, events) ==
    [op |-> op, id |-> id, caller |-> caller, result |-> result, events |-> events]
Failed(op, id, caller, result) ==
    /\ UNCHANGED <<instance, trades, arbitrators, balance, payouts>>
    /\ last' = Call(op, id, caller, result, <<>>)

Init ==
    /\ instance = EmptyStorage
    /\ trades = [i \in {} |-> 0]
    /\ arbitrators = {}
    /\ balance = [a \in Addresses \cup {Contract} |-> IF a \in Minted THEN MintAmount ELSE 0]
    /\ payouts = [i \in {} |-> 0]
    /\ last = Call("none", 0, "none", "Ok", <<>>)

\* ------------------------------------------------------------- lib.rs: initialize
initialize_result_again(admin, fee_bps, caller) ==
    IF fee_bps > MAX_FEE_BPS THEN "InvalidFeeBps"
    ELSE IF admin # caller THEN "AuthFailed"
    ELSE "Ok"
initialize_result(admin, fee_bps, caller) ==
    IF is_initialized THEN "AlreadyInitialized"
    ELSE IF fee_bps > MAX_FEE_BPS THEN "InvalidFeeBps"
    ELSE IF admin # caller THEN "AuthFailed"
    ELSE "Ok"

initialize(admin, usdc_token, fee_bps, caller) ==
    LET r == initialize_result(admin, fee_bps, caller) IN
    IF r = "Ok"
    THEN /\ instance' = [INIT |-> TRUE, ADMIN |-> admin, USDC |-> usdc_token,
                         FEE_BPS |-> fee_bps, COUNTER |-> 0, ACC_FEES |-> 0]
         /\ UNCHANGED <<trades, arbitrators, balance, payouts>>
         /\ last' = Call("initialize", 0, caller, "Ok", <<>>)
    ELSE Failed("initialize", 0, caller, r)

\* ------------------------------------------------------------- lib.rs: arbitrator registry
admin_result(caller) ==
    IF ~is_initialized THEN "NotInitialized"
    ELSE IF get_admin # caller THEN "AuthFailed"
    ELSE "Ok"

register_arbitrator(arbitrator, caller) ==
    LET r == admin_result(caller) IN
    IF r = "Ok"
    THEN /\ arbitrators' = arbitrators \cup {arbitrator}
         /\ UNCHANGED <<instance, trades, balance, payouts>>
         /\ last' = Call("register_arbitrator", 0, caller, "Ok", << <<"arb_reg", arbitrator>> >>)
    ELSE Failed("register_arbitrator", 0, caller, r)

remove_arbitrator_fn_clears(arbitrator, caller) ==
    LET r == admin_result(caller) IN
    IF r = "Ok"
    THEN /\ arbitrators' = {}
         /\ UNCHANGED <<instance, trades, balance, payouts>>
         /\ last' = Call("remove_arbitrator", 0, caller, "Ok", << <<"arb_rem", arbitrator>> >>)
    ELSE Failed("remove_arbitrator", 0, caller, r)

remove_arbitrator_fn(arbitrator, caller) ==
    LET r == admin_result(caller) IN
    IF r = "Ok"
    THEN /\ arbitrators' = arbitrators \ {arbitrator}
         /\ UNCHANGED <<instance, trades, balance, payouts>>
         /\ last' = Call("remove_arbitrator", 0, caller, "Ok", << <<"arb_rem", arbitrator>> >>)
    ELSE Failed("remove_arbitrator", 0, caller, r)

\* ------------------------------------------------------------- lib.rs: fee ledger
update_fee_result_unbounded(fee_bps, caller) ==
    IF ~is_initialized THEN "NotInitialized"
    ELSE IF get_admin # caller THEN "AuthFailed"
    ELSE "Ok"
update_fee_result(fee_bps, caller) ==
    IF ~is_initialized THEN "NotInitialized"
    ELSE IF fee_bps > MAX_FEE_BPS THEN "InvalidFeeBps"
    ELSE IF get_admin # caller THEN "AuthFailed"
    ELSE "Ok"

update_fee(fee_bps, caller) ==
    LET r == update_fee_result(fee_bps, caller) IN
    IF r = "Ok"
    THEN /\ instance' = set(instance, "FEE_BPS", fee_bps)
         /\ UNCHANGED <<trades, arbitrators, balance, payouts>>
         /\ last' = Call("update_fee", 0, caller, "Ok", << <<"fee_upd", fee_bps>> >>)
    ELSE Failed("update_fee", 0, caller, r)

withdraw_fees_result_no_zero_check(caller) ==
    IF ~is_initialized THEN "NotInitialized"
    ELSE IF get_admin # caller THEN "AuthFailed"
    ELSE IF ~can_transfer(Contract, get_accumulated_fees) THEN "TransferFailed"
    ELSE "Ok"
withdraw_fees_result(caller) ==
    IF ~is_initialized THEN "NotInitialized"
    ELSE IF get_admin # caller THEN "AuthFailed"
    ELSE IF get_accumulated_fees = 0 THEN "NoFeesToWithdraw"
    ELSE IF ~can_transfer(Contract, get_accumulated_fees) THEN "TransferFailed"
    ELSE "Ok"

withdraw_fees(to, caller) ==
    LET r == withdraw_fees_result(caller) IN
    IF r = "Ok"
    THEN LET fees == get_accumulated_fees IN
         /\ balance' = transfer(Contract, to, fees)
         /\ instance' = set(instance, "ACC_FEES", 0)
         /\ UNCHANGED <<trades, arbitrators, payouts>>
         /\ last' = Call("withdraw_fees", 0, caller, "Ok", << <<"fees_out", fees, to>> >>)
    ELSE Failed("withdraw_fees", 0, caller, r)

\* ------------------------------------------------------------- lib.rs: create_trade
\* amount.checked_mul(fee_bps).checked_div(10000): None is ContractError::Overflow
compute_fee(amount, fee_bps) ==
    LET product == checked_mul(amount, fee_bps) IN
    IF product = None THEN None ELSE checked_div(Unwrap(product), BPS_DENOMINATOR)

increment_trade_counter_reused == checked_add(get_trade_counter, 0)
\* storage.rs increment_trade_counter: the next id, None on overflow
increment_trade_counter == checked_add(get_trade_counter, 1)

create_trade_result_any_arbitrator(seller, amount, arbitrator, caller) ==
    IF ~is_initialized THEN "NotInitialized"
    ELSE IF amount = 0 THEN "InvalidAmount"
    ELSE IF seller # caller THEN "AuthFailed"
    ELSE IF increment_trade_counter = None THEN "Overflow"
    ELSE IF compute_fee(amount, get_fee_bps) = None THEN "Overflow"
    ELSE "Ok"
create_trade_result(seller, amount, arbitrator, caller) ==
    IF ~is_initialized THEN "NotInitialized"
    ELSE IF amount = 0 THEN "InvalidAmount"
    ELSE IF seller # caller THEN "AuthFailed"
    ELSE IF arbitrator # None /\ ~has_arbitrator(Unwrap(arbitrator)) THEN "ArbitratorNotRegistered"
    ELSE IF increment_trade_counter = None THEN "Overflow"
    ELSE IF compute_fee(amount, get_fee_bps) = None THEN "Overflow"
    ELSE "Ok"

create_trade(seller, buyer, amount, arbitrator, caller) ==
    LET r == create_trade_result(seller, amount, arbitrator, caller) IN
    IF r = "Ok"
    THEN LET trade_id == Unwrap(increment_trade_counter)
             trade == [id |-> trade_id, seller |-> seller, buyer |-> buyer,
                       amount |-> amount, fee |-> Unwrap(compute_fee(amount, get_fee_bps)),
                       arbitrator |-> arbitrator, status |-> "Created"]
         IN
         /\ instance' = set(instance, "COUNTER", trade_id)
         /\ trades' = save_trade(trade_id, trade)
         /\ payouts' = [i \in DOMAIN payouts \cup {trade_id} |->
                            IF i = trade_id THEN 0 ELSE payouts[i]]
         /\ UNCHANGED <<arbitrators, balance>>
         /\ last' = Call("create_trade", trade_id, caller, "Ok",
                         << <<"created", trade_id, seller, buyer, amount>> >>)
    ELSE Failed("create_trade", 0, caller, r)

\* ------------------------------------------------------------- lib.rs: trade lifecycle
\* the status each operation requires of the trade (lib.rs:180, 210, 231, 265, 299, 339)
fund_trade_status(status) == status = "Created"
complete_trade_status(status) == status = "Funded"
confirm_receipt_status_created(status) == status = "Completed" \/ status = "Created"
confirm_receipt_status(status) == status = "Completed"
raise_dispute_status(status) == status = "Funded" \/ status = "Completed"
resolve_dispute_status(status) == status = "Disputed"
cancel_trade_status_funded(status) == status = "Created" \/ status = "Funded"
cancel_trade_status(status) == status = "Created"

\* the account each operation calls require_auth() on (lib.rs:184, 214, 235, 304, 343)
fund_trade_auth(trade) == trade.buyer
complete_trade_auth(trade) == trade.seller
confirm_receipt_auth(trade) == trade.buyer
resolve_dispute_auth_admin(trade) == get_admin
resolve_dispute_auth(trade) == Unwrap(trade.arbitrator)
cancel_trade_auth(trade) == trade.seller

payout_of_gross(trade) == Some(trade.amount)
\* lib.rs:240, 314: trade.amount.checked_sub(trade.fee)
payout_of(trade) == checked_sub(trade.amount, trade.fee)
accrue_wrapping(trade) == Some((get_accumulated_fees + trade.fee) % (U64_MAX + 1))
accrue_current_rate(trade) ==
    checked_add(get_accumulated_fees, (trade.amount * get_fee_bps) \div BPS_DENOMINATOR)
\* lib.rs:248-249, 322-323: current_fees.checked_add(trade.fee)
accrue(trade) == checked_add(get_accumulated_fees, trade.fee)
recipient_of_swapped(trade, resolution) ==
    IF resolution = "ReleaseToBuyer" THEN trade.seller ELSE trade.buyer
\* lib.rs:309-312
recipient_of(trade, resolution) ==
    IF resolution = "ReleaseToBuyer" THEN trade.buyer ELSE trade.seller

with_status_unbound(trade, status) ==
    [trade EXCEPT !.status = status, !.arbitrator = None]
with_status(trade, status) == [trade EXCEPT !.status = status]

fund_trade_result_transfer_first(trade_id, caller) ==
    IF ~is_initialized THEN "NotInitialized"
    ELSE IF ~has_trade(trade_id) THEN "TradeNotFound"
    ELSE IF ~can_transfer(get_trade(trade_id).buyer, get_trade(trade_id).amount)
         THEN "TransferFailed"
    ELSE IF ~fund_trade_status(get_trade(trade_id).status) THEN "InvalidStatus"
    ELSE IF fund_trade_auth(get_trade(trade_id)) # caller THEN "AuthFailed"
    ELSE "Ok"

fund_trade_result(trade_id, caller) ==
    IF ~is_initialized THEN "NotInitialized"
    ELSE IF ~has_trade(trade_id) THEN "TradeNotFound"
    ELSE IF ~fund_trade_status(get_trade(trade_id).status) THEN "InvalidStatus"
    ELSE IF fund_trade_auth(get_trade(trade_id)) # caller THEN "AuthFailed"
    ELSE IF ~can_transfer(get_trade(trade_id).buyer, get_trade(trade_id).amount)
         THEN "TransferFailed"
    ELSE "Ok"

fund_trade(trade_id, caller) ==
    LET r == fund_trade_result(trade_id, caller) IN
    IF r = "Ok"
    THEN LET trade == get_trade(trade_id) IN
         /\ balance' = transfer(trade.buyer, Contract, trade.amount)
         /\ trades' = save_trade(trade_id, with_status(trade, "Funded"))
         /\ UNCHANGED <<instance, arbitrators, payouts>>
         /\ last' = Call("fund_trade", trade_id, caller, "Ok", << <<"funded", trade_id>> >>)
    ELSE Failed("fund_trade", trade_id, caller, r)

complete_trade_result(trade_id, caller) ==
    IF ~is_initialized THEN "NotInitialized"
    ELSE IF ~has_trade(trade_id) THEN "TradeNotFound"
    ELSE IF ~complete_trade_status(get_trade(trade_id).status) THEN "InvalidStatus"
    ELSE IF complete_trade_auth(get_trade(trade_id)) # caller THEN "AuthFailed"
    ELSE "Ok"

complete_trade(trade_id, caller) ==
    LET r == complete_trade_result(trade_id, caller) IN
    IF r = "Ok"
    THEN /\ trades' = save_trade(trade_id, with_status(get_trade(trade_id), "Completed"))
         /\ UNCHANGED <<instance, arbitrators, balance, payouts>>
         /\ last' = Call("complete_trade", trade_id, caller, "Ok", << <<"complete", trade_id>> >>)
    ELSE Failed("complete_trade", trade_id, caller, r)

confirm_receipt_result(trade_id, caller) ==
    IF ~is_initialized THEN "NotInitialized"
    ELSE IF ~has_trade(trade_id) THEN "TradeNotFound"
    ELSE IF ~confirm_receipt_status(get_trade(trade_id).status) THEN "InvalidStatus"
    ELSE IF confirm_receipt_auth(get_trade(trade_id)) # caller THEN "AuthFailed"
    ELSE IF payout_of(get_trade(trade_id)) = None THEN "Overflow"
    ELSE IF ~can_transfer(Contract, Unwrap(payout_of(get_trade(trade_id))))
         THEN "TransferFailed"
    ELSE IF accrue(get_trade(trade_id)) = None THEN "Overflow"
    ELSE "Ok"

\* the trade record is read and never saved back: its status stays Completed
confirm_receipt_upto(trade_id, caller, cap) ==
    LET r == confirm_receipt_result(trade_id, caller) IN
    IF r = "Ok"
    THEN LET trade == get_trade(trade_id)
             payout == Unwrap(payout_of(trade))
         IN
         /\ balance' = transfer(Contract, trade.seller, payout)
         /\ instance' = set(instance, "ACC_FEES", Unwrap(accrue(trade)))
         /\ payouts[trade_id] < cap
         /\ payouts' = [payouts EXCEPT ![trade_id] = @ + 1]
         /\ UNCHANGED <<trades, arbitrators>>
         /\ last' = Call("confirm_receipt", trade_id, caller, "Ok",
                         << <<"confirm", trade_id, payout, trade.fee>> >>)
    ELSE Failed("confirm_receipt", trade_id, caller, r)

\* followed for MaxPayouts payouts of a trade
confirm_receipt(trade_id, caller) == confirm_receipt_upto(trade_id, caller, MaxPayouts)

raise_dispute_result_no_arbitrator_check(trade_id, caller) ==
    IF ~is_initialized THEN "NotInitialized"
    ELSE IF ~has_trade(trade_id) THEN "TradeNotFound"
    ELSE IF ~raise_dispute_status(get_trade(trade_id).status) THEN "InvalidStatus"
    ELSE IF caller # get_trade(trade_id).buyer /\ caller # get_trade(trade_id).seller
         THEN "Unauthorized"
    ELSE "Ok"

raise_dispute_result_party_first(trade_id, caller) ==
    IF ~is_initialized THEN "NotInitialized"
    ELSE IF ~has_trade(trade_id) THEN "TradeNotFound"
    ELSE IF ~raise_dispute_status(get_trade(trade_id).status) THEN "InvalidStatus"
    ELSE IF caller # get_trade(trade_id).buyer /\ caller # get_trade(trade_id).seller
         THEN "Unauthorized"
    ELSE IF get_trade(trade_id).arbitrator = None THEN "ArbitratorNotRegistered"
    ELSE "Ok"

raise_dispute_result(trade_id, caller) ==
    IF ~is_initialized THEN "NotInitialized"
    ELSE IF ~has_trade(trade_id) THEN "TradeNotFound"
    ELSE IF ~raise_dispute_status(get_trade(trade_id).status) THEN "InvalidStatus"
    ELSE IF get_trade(trade_id).arbitrator = None THEN "ArbitratorNotRegistered"
    ELSE IF caller # get_trade(trade_id).buyer /\ caller # get_trade(trade_id).seller
         THEN "Unauthorized"
    ELSE "Ok"

raise_dispute(trade_id, caller) ==
    LET r == raise_dispute_result(trade_id, caller) IN
    IF r = "Ok"
    THEN /\ trades' = save_trade(trade_id, with_status(get_trade(trade_id), "Disputed"))
         /\ UNCHANGED <<instance, arbitrators, balance, payouts>>
         /\ last' = Call("raise_dispute", trade_id, caller, "Ok",
                         << <<"dispute", trade_id, caller>> >>)
    ELSE Failed("raise_dispute", trade_id, caller, r)

resolve_dispute_result_registered(trade_id, caller) ==
    IF ~is_initialized THEN "NotInitialized"
    ELSE IF ~has_trade(trade_id) THEN "TradeNotFound"
    ELSE IF ~resolve_dispute_status(get_trade(trade_id).status) THEN "InvalidStatus"
    ELSE IF get_trade(trade_id).arbitrator = None THEN "ArbitratorNotRegistered"
    ELSE IF ~has_arbitrator(Unwrap(get_trade(trade_id).arbitrator))
         THEN "ArbitratorNotRegistered"
    ELSE IF resolve_dispute_auth(get_trade(trade_id)) # caller THEN "AuthFailed"
    ELSE IF payout_of(get_trade(trade_id)) = None THEN "Overflow"
    ELSE IF ~can_transfer(Contract, Unwrap(payout_of(get_trade(trade_id))))
         THEN "TransferFailed"
    ELSE IF accrue(get_trade(trade_id)) = None THEN "Overflow"
    ELSE "Ok"

resolve_dispute_result(trade_id, caller) ==
    IF ~is_initialized THEN "NotInitialized"
    ELSE IF ~has_trade(trade_id) THEN "TradeNotFound"
    ELSE IF ~resolve_dispute_status(get_trade(trade_id).status) THEN "InvalidStatus"
    ELSE IF get_trade(trade_id).arbitrator = None THEN "ArbitratorNotRegistered"
    ELSE IF resolve_dispute_auth(get_trade(trade_id)) # caller THEN "AuthFailed"
    ELSE IF payout_of(get_trade(trade_id)) = None THEN "Overflow"
    ELSE IF ~can_transfer(Contract, Unwrap(payout_of(get_trade(trade_id))))
         THEN "TransferFailed"
    ELSE IF accrue(get_trade(trade_id)) = None THEN "Overflow"
    ELSE "Ok"

\* the trade record is read and never saved back: its status stays Disputed
resolve_dispute_upto(trade_id, resolution, caller, cap) ==
    LET r == resolve_dispute_result(trade_id, caller) IN
    IF r = "Ok"
    THEN LET trade == get_trade(trade_id)
             payout == Unwrap(payout_of(trade))
             recipient == recipient_of(trade, resolution)
         IN
         /\ balance' = transfer(Contract, recipient, payout)
         /\ instance' = set(instance, "ACC_FEES", Unwrap(accrue(trade)))
         /\ payouts[trade_id] < cap
         /\ payouts' = [payouts EXCEPT ![trade_id] = @ + 1]
         /\ UNCHANGED <<trades, arbitrators>>
         /\ last' = Call("resolve_dispute", trade_id, caller, "Ok",
                         << <<"resolved", trade_id, resolution, recipient>> >>)
    ELSE Failed("resolve_dispute", trade_id, caller, r)

\* followed for MaxPayouts payouts of a trade
resolve_dispute(trade_id, resolution, caller) ==
    resolve_dispute_upto(trade_id, resolution, caller, MaxPayouts)

cancel_trade_result_lookup_first(trade_id, caller) ==
    IF ~has_trade(trade_id) THEN "TradeNotFound"
    ELSE IF ~is_initialized THEN "NotInitialized"
    ELSE IF ~cancel_trade_status(get_trade(trade_id).status) THEN "InvalidStatus"
    ELSE IF cancel_trade_auth(get_trade(trade_id)) # caller THEN "AuthFailed"
    ELSE "Ok"

cancel_trade_result(trade_id, caller) ==
    IF ~is_initialized THEN "NotInitialized"
    ELSE IF ~has_trade(trade_id) THEN "TradeNotFound"
    ELSE IF ~cancel_trade_status(get_trade(trade_id).status) THEN "InvalidStatus"
    ELSE IF cancel_trade_auth(get_trade(trade_id)) # caller THEN "AuthFailed"
    ELSE "Ok"

cancel_trade(trade_id, caller) ==
    LET r == cancel_trade_result(trade_id, caller) IN
    IF r = "Ok"
    THEN /\ trades' = save_trade(trade_id, with_status(get_trade(trade_id), "Cancelled"))
         /\ UNCHANGED <<instance, arbitrators, balance, payouts>>
         /\ last' = Call("cancel_trade", trade_id, caller, "Ok", << <<"cancel", trade_id>> >>)
    ELSE Failed("cancel_trade", trade_id, caller, r)

\* ------------------------------------------------------------- specifications
\* A successful create_trade is followed while at most n trades exist.
Followed(n) == last'.op = "create_trade" /\ last'.result = "Ok" => last'.id <= n

\* A rejected invocation leaves instance, trades, arbitrators, balance and payouts as
\* they were, so the states that differ only in the record of a rejected invocation
\* have the same successors up to `last`.  Successors are generated from one
\* representative of them, the state a successful invocation (or Init) produced.  The
\* reachable states are those of the unguarded specification; the steps are its steps
\* up to the unprimed value of `last`, which no property below reads.
Representative == last.result = "Ok"

Next ==
    \/ \E admin \in Admins, t \in Tokens, f \in FeeArgs, c \in Addresses :
            Representative /\ initialize(admin, t, f, c)
    \/ \E a \in ArbitratorArgs, c \in Addresses :
            Representative /\ register_arbitrator(a, c)
    \/ \E a \in ArbitratorArgs, c \in Addresses :
            Representative /\ remove_arbitrator_fn(a, c)
    \/ \E f \in FeeArgs, c \in Addresses :
            Representative /\ update_fee(f, c)
    \/ \E to \in Recipients, c \in Addresses :
            Representative /\ withdraw_fees(to, c)
    \/ \E s \in Sellers, b \in Buyers, amt \in Amounts, arb \in OptArbitrators,
          c \in Addresses :
            Representative /\ create_trade(s, b, amt, arb, c) /\ Followed(MaxTrades)
    \/ \E id \in TradeIds, c \in Addresses :
            Representative /\ fund_trade(id, c)
    \/ \E id \in TradeIds, c \in Addresses :
            Representative /\ complete_trade(id, c)
    \/ \E id \in TradeIds, c \in Addresses :
            Representative /\ confirm_receipt(id, c)
    \/ \E id \in TradeIds, c \in Addresses :
            Representative /\ raise_dispute(id, c)
    \/ \E id \in TradeIds, res \in DisputeResolution, c \in Addresses :
            Representative /\ resolve_dispute(id, res, c)
    \/ \E id \in TradeIds, c \in Addresses :
            Representative /\ cancel_trade(id, c)

Spec == Init /\ [][Next]_vars

\* ------------------------------------------------------------- two trades
\* The same contract with PairTrades unarbitrated trades between alice and bob,
\* invoked by the admin and the two parties; bob is minted enough to fund every trade.
PairParties == {"alice", "bob"}
PairAmounts == {3}
PairFees == {5000, 7500}
PairIds == 1..PairTrades

InitPair ==
    /\ instance = EmptyStorage
    /\ trades = [i \in {} |-> 0]
    /\ arbitrators = {}
    /\ balance = [a \in Addresses \cup {Contract} |->
                     IF a \in Minted THEN PairTrades * MintAmount ELSE 0]
    /\ payouts = [i \in {} |-> 0]
    /\ last = Call("none", 0, "none", "Ok", <<>>)

NextPair ==
    \/ \E f \in PairFees :
            Representative /\ initialize("admin", "usdc", f, "admin")
    \/ \E f \in PairFees :
            Representative /\ update_fee(f, "admin")
    \/ \E to \in Recipients :
            Representative /\ withdraw_fees(to, "admin")
    \/ \E amt \in PairAmounts :
            /\ Representative
            /\ create_trade("alice", "bob", amt, None, "alice")
            /\ Followed(PairTrades)
    \/ \E id \in PairIds, c \in PairParties :
            Representative /\ fund_trade(id, c)
    \/ \E id \in PairIds, c \in PairParties :
            Representative /\ complete_trade(id, c)
    \/ \E id \in PairIds, c \in PairParties :
            Representative /\ confirm_receipt(id, c)
    \/ \E id \in PairIds, c \in PairParties :
            Representative /\ cancel_trade(id, c)

SpecPair == InitPair /\ [][NextPair]_vars

\* ------------------------------------------------------------- trade ids
\* The same contract with up to IdTrades trades between alice and bob, some of them
\* cancelled or settled before the next is created, and create_trade calls that fail.
IdAmounts == {0, 3}
IdFees == {5000}
IdIds == 1..IdTrades

InitIds ==
    /\ instance = EmptyStorage
    /\ trades = [i \in {} |-> 0]
    /\ arbitrators = {}
    /\ balance = [a \in Addresses \cup {Contract} |->
                     IF a \in Minted THEN IdTrades * MintAmount ELSE 0]
    /\ payouts = [i \in {} |-> 0]
    /\ last = Call("none", 0, "none", "Ok", <<>>)

NextIds ==
    \/ \E f \in IdFees :
            Representative /\ initialize("admin", "usdc", f, "admin")
    \/ \E amt \in IdAmounts, c \in PairParties :
            /\ Representative
            /\ create_trade("alice", "bob", amt, None, c)
            /\ Followed(IdTrades)
    \/ \E id \in IdIds :
            Representative /\ fund_trade(id, "bob")
    \/ \E id \in IdIds :
            Representative /\ complete_trade(id, "alice")
    \/ \E id \in IdIds :
            Representative /\ confirm_receipt(id, "bob")
    \/ \E id \in IdIds :
            Representative /\ cancel_trade(id, "alice")

SpecIds == InitIds /\ [][NextIds]_vars

\* ------------------------------------------------------------- fee computation
\* create_trade as the function from (amount, fee_bps in force) to the stored fee or
\* Overflow: the admin sets a rate, alice creates a trade of an amount.  The amounts
\* and rates lie on both sides of amount * fee_bps = U64_MAX.
FeeRates == {0, 1, 250, 2500, 3333, 5000, 9999, 10000}
FeeAmounts == {1, 2, 3, 6, 7, 13, 14, 26, 27, 262, 263, 65535}

NextFee ==
    \/ \E f \in FeeRates :
            Representative /\ initialize("admin", "usdc", f, "admin")
    \/ \E f \in FeeRates :
            Representative /\ update_fee(f, "admin")
    \/ \E amt \in FeeAmounts :
            /\ Representative
            /\ create_trade("alice", "bob", amt, None, "alice")
            /\ Followed(MaxTrades)

SpecFee == Init /\ [][NextFee]_vars

\* ------------------------------------------------------------- arbitrator registry
\* The registry alone: three addresses registered and removed in any order, by the
\* admin and by others, read through is_arbitrator_registered.
RegistryArgs == {"alice", "bob", "carol"}
is_arbitrator_registered(arbitrator) == has_arbitrator(arbitrator)

NextRegistry ==
    \/ \E f \in FeeArgs, c \in Addresses :
            Representative /\ initialize("admin", "usdc", f, c)
    \/ \E a \in RegistryArgs, c \in Addresses :
            Representative /\ register_arbitrator(a, c)
    \/ \E a \in RegistryArgs, c \in Addresses :
            Representative /\ remove_arbitrator_fn(a, c)

SpecRegistry == Init /\ [][NextRegistry]_vars

\* ------------------------------------------------------------- repeated initialize
\* initialize offered with either of two admins and two tokens, by any caller, before
\* and after a trade has been created, settled and its fee withdrawn.
InitAdmins == {"admin", "alice"}
InitTokens == {"usdc", "xlm"}

NextInit ==
    \/ \E admin \in InitAdmins, t \in InitTokens, f \in FeeArgs, c \in Addresses :
            Representative /\ initialize(admin, t, f, c)
    \/ /\ Representative
       /\ create_trade("alice", "bob", MintAmount, None, "alice")
       /\ Followed(MaxTrades)
    \/ \E id \in TradeIds :
            Representative /\ fund_trade(id, "bob")
    \/ \E id \in TradeIds :
            Representative /\ complete_trade(id, "alice")
    \/ \E id \in TradeIds :
            Representative /\ confirm_receipt(id, "bob")
    \/ \E to \in Recipients, c \in InitAdmins :
            Representative /\ withdraw_fees(to, c)

SpecInit == Init /\ [][NextInit]_vars

\* lib.rs:368-370 get_platform_fee_bps, read on an initialized contract
get_platform_fee_bps == get_fee_bps

\* ------------------------------------------------------------- create_trade guards
\* create_trade with every combination of its arguments and callers, against a
\* registry the admin fills and empties.
NextCreate ==
    \/ \E f \in FeeArgs :
            Representative /\ initialize("admin", "usdc", f, "admin")
    \/ \E a \in ArbitratorArgs :
            Representative /\ register_arbitrator(a, "admin")
    \/ \E a \in ArbitratorArgs :
            Representative /\ remove_arbitrator_fn(a, "admin")
    \/ \E s \in Sellers, b \in Buyers, amt \in Amounts, arb \in OptArbitrators,
          c \in Addresses :
            Representative /\ create_trade(s, b, amt, arb, c) /\ Followed(MaxTrades)

SpecCreate == Init /\ [][NextCreate]_vars

\* ------------------------------------------------------------- transfers
\* The four operations that move tokens, invoked by every account, on trades whose
\* buyer holds the amount (bob) or does not (admin), with and without an arbitrator,
\* against a registry the admin fills and empties.
TransferBuyers == {"bob", "admin"}

NextTransfer ==
    \/ \E f \in PairFees :
            Representative /\ initialize("admin", "usdc", f, "admin")
    \/ \E a \in ArbitratorArgs :
            Representative /\ register_arbitrator(a, "admin")
    \/ \E a \in ArbitratorArgs :
            Representative /\ remove_arbitrator_fn(a, "admin")
    \/ \E b \in TransferBuyers, arb \in OptArbitrators :
            /\ Representative
            /\ create_trade("alice", b, MintAmount, arb, "alice")
            /\ Followed(MaxTrades)
    \/ \E id \in TradeIds, c \in Addresses :
            Representative /\ fund_trade(id, c)
    \/ \E id \in TradeIds :
            Representative /\ complete_trade(id, "alice")
    \/ \E id \in TradeIds, c \in Addresses :
            Representative /\ confirm_receipt(id, c)
    \/ \E id \in TradeIds, c \in Addresses :
            Representative /\ raise_dispute(id, c)
    \/ \E id \in TradeIds, res \in DisputeResolution, c \in Addresses :
            Representative /\ resolve_dispute(id, res, c)
    \/ \E to \in Recipients, c \in Addresses :
            Representative /\ withdraw_fees(to, c)

SpecTransfer == Init /\ [][NextTransfer]_vars

\* ------------------------------------------------------------- fee accrual
\* accumulated_fees next to u64::MAX.  At the rate MAX_FEE_BPS the fee of a trade is
\* its amount and its payout is 0, so confirm_receipt, which leaves the trade
\* Completed, accrues the fee again on every call without draining the escrow.
\* Settled(k) is the state k such calls reach (SpecSettled reaches it step by step):
\*   initialize(admin, usdc, MAX_FEE_BPS); create_trade(alice, bob, MintAmount, None);
\*   fund_trade(1); complete_trade(1); confirm_receipt(1) k times.
Settled(k) ==
    /\ instance = [INIT |-> TRUE, ADMIN |-> "admin", USDC |-> "usdc",
                   FEE_BPS |-> MAX_FEE_BPS, COUNTER |-> 1, ACC_FEES |-> k * MintAmount]
    /\ trades = [i \in {1} |->
                    [id |-> 1, seller |-> "alice", buyer |-> "bob", amount |-> MintAmount,
                     fee |-> MintAmount, arbitrator |-> None, status |-> "Completed"]]
    /\ arbitrators = {}
    /\ balance = [a \in Addresses \cup {Contract} |-> IF a = Contract THEN MintAmount ELSE 0]
    /\ payouts = [i \in {1} |-> k]
    /\ last = Call("confirm_receipt", 1, "bob", "Ok", << <<"confirm", 1, 0, MintAmount>> >>)

\* the accruals of MintAmount that fit u64, and the last two counts before they do not
LastAccruals == U64_MAX \div MintAmount
AccrueCounts == {LastAccruals - 1, LastAccruals}

NextSettled ==
    \/ Representative /\ initialize("admin", "usdc", MAX_FEE_BPS, "admin")
    \/ /\ Representative
       /\ create_trade("alice", "bob", MintAmount, None, "alice")
       /\ Followed(MaxTrades)
    \/ Representative /\ fund_trade(1, "bob")
    \/ Representative /\ complete_trade(1, "alice")
    \/ Representative /\ confirm_receipt_upto(1, "bob", U64_MAX)

SpecSettled == Init /\ [][NextSettled]_vars

\* The contract from Init, and from the Settled states, under every operation: the
\* admin's, and the lifecycle of arbitrated and unarbitrated trades by their parties.
InitAccrue == Init \/ \E k \in AccrueCounts : Settled(k)

NextAccrue ==
    \/ \E f \in PairFees, c \in PairParties \cup {"admin"} :
            Representative /\ initialize("admin", "usdc", f, c)
    \/ \E a \in ArbitratorArgs :
            Representative /\ register_arbitrator(a, "admin")
    \/ \E a \in ArbitratorArgs :
            Representative /\ remove_arbitrator_fn(a, "admin")
    \/ \E f \in PairFees :
            Representative /\ update_fee(f, "admin")
    \/ \E to \in Recipients :
            Representative /\ withdraw_fees(to, "admin")
    \/ \E arb \in OptArbitrators :
            /\ Representative
            /\ create_trade("alice", "bob", MintAmount, arb, "alice")
            /\ Followed(MaxTrades)
    \/ \E id \in TradeIds :
            Representative /\ fund_trade(id, "bob")
    \/ \E id \in TradeIds :
            Representative /\ complete_trade(id, "alice")
    \/ \E id \in TradeIds, c \in PairParties :
            Representative /\ confirm_receipt_upto(id, c, U64_MAX)
    \/ \E id \in TradeIds, c \in PairParties :
            Representative /\ raise_dispute(id, c)
    \/ \E id \in TradeIds, res \in DisputeResolution :
            Representative /\ resolve_dispute_upto(id, res, "carol", U64_MAX)
    \/ \E id \in TradeIds :
            Representative /\ cancel_trade(id, "alice")

SpecAccrue == InitAccrue /\ [][NextAccrue]_vars

\* ------------------------------------------------------------- read-only accessors
\* lib.rs:352-370: what each accessor returns, as a result and (when Ok) a value.
Returned(result, value) == [result |-> result, value |-> value]
read_get_trade_returns(trade_id) ==
    IF has_trade(trade_id) THEN Returned("Ok", Some(get_trade(trade_id)))
    ELSE Returned("TradeNotFound", None)
read_get_accumulated_fees_returns ==
    IF has("ACC_FEES") THEN Returned("Ok", Some(get_accumulated_fees))
    ELSE Returned("NotInitialized", None)
read_get_platform_fee_bps_returns ==
    IF has("FEE_BPS") THEN Returned("Ok", Some(get_fee_bps))
    ELSE Returned("NotInitialized", None)
read_is_arbitrator_registered_returns(arbitrator) ==
    Returned("Ok", Some(has_arbitrator(arbitrator)))

\* an accessor invocation: nothing is written, the returned value is recorded
Read(op, id, returned) ==
    /\ UNCHANGED <<instance, trades, arbitrators, balance, payouts>>
    /\ last' = [op |-> op, id |-> id, caller |-> "none", result |-> returned.result,
                events |-> <<>>, value |-> returned.value]
read_get_trade(trade_id) == Read("get_trade", trade_id, read_get_trade_returns(trade_id))
read_get_accumulated_fees == Read("get_accumulated_fees", 0, read_get_accumulated_fees_returns)
read_get_platform_fee_bps == Read("get_platform_fee_bps", 0, read_get_platform_fee_bps_returns)
read_is_arbitrator_registered(arbitrator) ==
    Read("is_arbitrator_registered", 0, read_is_arbitrator_registered_returns(arbitrator))

Accessors == {"get_trade", "get_accumulated_fees", "get_platform_fee_bps",
              "is_arbitrator_registered"}

NextRead ==
    \/ \E f \in FeeArgs, c \in Addresses :
            Representative /\ initialize("admin", "usdc", f, c)
    \/ \E a \in RegistryArgs :
            Representative /\ register_arbitrator(a, "admin")
    \/ \E f \in FeeArgs :
            Representative /\ update_fee(f, "admin")
    \/ \E b \in Buyers, arb \in OptArbitrators :
            /\ Representative
            /\ create_trade("alice", b, MintAmount, arb, "alice")
            /\ Followed(MaxTrades)
    \/ \E id \in TradeIds :
            Representative /\ read_get_trade(id)
    \/ Representative /\ read_get_accumulated_fees
    \/ Representative /\ read_get_platform_fee_bps
    \/ \E a \in RegistryArgs :
            Representative /\ read_is_arbitrator_registered(a)

SpecRead == Init /\ [][NextRead]_vars

\* ============================================================= claims
LifecycleOps == {"fund_trade", "complete_trade", "confirm_receipt",
                 "raise_dispute", "resolve_dispute", "cancel_trade"}
StoreUnchanged == UNCHANGED <<instance, trades, arbitrators, balance>>

\* C1: for every trade, the payout out of escrow (with its fee accrual) happens at
\* most once in total.
C1_PayoutAtMostOnce == \A id \in DOMAIN payouts : payouts[id] <= 1

\* C2: settlement is terminal: once a payout of a trade has succeeded, every later
\* lifecycle operation on that trade fails and leaves the store and balances unchanged.
C2_SettlementTerminal ==
    [][\A id \in DOMAIN payouts :
          (payouts[id] >= 1 /\ last'.op \in LifecycleOps /\ last'.id = id)
              => (last'.result # "Ok" /\ StoreUnchanged)]_vars

\* C3: a stored status changes only along Created->Funded (fund_trade),
\* Funded->Completed (complete_trade), Created->Cancelled (cancel_trade),
\* Funded->Disputed and Completed->Disputed (raise_dispute); nothing leaves Cancelled
\* or Disputed and no status moves back.
StatusEdges ==
    {<<"Created", "Funded", "fund_trade">>, <<"Funded", "Completed", "complete_trade">>,
     <<"Created", "Cancelled", "cancel_trade">>, <<"Funded", "Disputed", "raise_dispute">>,
     <<"Completed", "Disputed", "raise_dispute">>}
StatusRank(status) ==
    CASE status = "Created" -> 0
      [] status = "Funded" -> 1
      [] status = "Completed" -> 2
      [] OTHER -> 3
C3_StatusEdges ==
    [][\A id \in DOMAIN trades :
          /\ id \in DOMAIN trades'
          /\ trades'[id].status # trades[id].status =>
                /\ <<trades[id].status, trades'[id].status, last'.op>> \in StatusEdges
                /\ last'.id = id /\ last'.result = "Ok"
                /\ StatusRank(trades'[id].status) > StatusRank(trades[id].status)]_vars
C3_Witness ==
    /\ last.op = "raise_dispute" /\ last.result = "Ok"
    /\ trades[last.id].status = "Disputed" /\ payouts[last.id] = 0

\* C4: a lifecycle operation on an existing trade whose status is not the one it
\* requires fails with InvalidStatus and leaves trades, counter, fees and balances
\* unchanged.
RequiredStatus(op) ==
    CASE op = "fund_trade" -> {"Created"}
      [] op = "cancel_trade" -> {"Created"}
      [] op = "complete_trade" -> {"Funded"}
      [] op = "confirm_receipt" -> {"Completed"}
      [] op = "raise_dispute" -> {"Funded", "Completed"}
      [] op = "resolve_dispute" -> {"Disputed"}
C4_InvalidStatus ==
    [][(/\ last'.op \in LifecycleOps
        /\ last'.id \in DOMAIN trades
        /\ trades[last'.id].status \notin RequiredStatus(last'.op))
          => (last'.result = "InvalidStatus" /\ StoreUnchanged)]_vars
C4_Witness ==
    /\ last.op = "cancel_trade" /\ last.result = "InvalidStatus"
    /\ last.id \in DOMAIN trades /\ trades[last.id].status = "Funded"

\* C5: the store and the balances change only in a step whose caller is the one
\* account the operation requires: the seller argument (create_trade), the trade's
\* buyer (fund_trade, confirm_receipt), the trade's seller (complete_trade,
\* cancel_trade), the trade's arbitrator (resolve_dispute), the admin (initialize,
\* register/remove arbitrator, update_fee, withdraw_fees).
RequiredAccount ==
    CASE last'.op = "initialize" -> {instance'["ADMIN"]}
      [] last'.op = "create_trade" -> {trades'[last'.id].seller}
      [] last'.op \in {"fund_trade", "confirm_receipt"} -> {trades[last'.id].buyer}
      [] last'.op \in {"complete_trade", "cancel_trade"} -> {trades[last'.id].seller}
      [] last'.op = "resolve_dispute" -> trades[last'.id].arbitrator
      [] last'.op \in {"register_arbitrator", "remove_arbitrator", "update_fee",
                       "withdraw_fees"} -> {instance["ADMIN"]}
      [] last'.op = "raise_dispute" -> {trades[last'.id].buyer, trades[last'.id].seller}
C5_OnlyAuthorized ==
    [][<<instance, trades, arbitrators, balance>>' # <<instance, trades, arbitrators, balance>>
          => (last'.result = "Ok" /\ last'.caller \in RequiredAccount)]_vars
C5_Witness ==
    /\ last.op = "fund_trade" /\ last.result = "AuthFailed"
    /\ last.caller = trades[last.id].seller /\ last.caller # trades[last.id].buyer
    /\ balance[trades[last.id].buyer] >= trades[last.id].amount

\* the ledger after moving amount from the escrow to the account `to`, and nothing else
Paid(to, amount) == [balance EXCEPT ![Contract] = @ - amount, ![to] = @ + amount]
Succeeded(op) == last'.op = op /\ last'.result = "Ok"

\* C6: a successful confirm_receipt acts on a Completed trade, moves exactly
\* amount - fee from the escrow to the trade's seller and adds exactly the trade's fee
\* to accumulated_fees, whichever trades were settled before it.
C6_ConfirmPaysSeller ==
    [][Succeeded("confirm_receipt") =>
          LET trade == trades[last'.id] IN
          /\ trade.status = "Completed"
          /\ balance' = Paid(trade.seller, trade.amount - trade.fee)
          /\ instance'["ACC_FEES"] = instance["ACC_FEES"] + trade.fee]_vars
\* both trades confirmed once, the second of them first, at different fees
C6_Witness ==
    /\ last.op = "confirm_receipt" /\ last.result = "Ok" /\ last.id = 1
    /\ DOMAIN payouts = {1, 2} /\ payouts[1] = 1 /\ payouts[2] = 1
    /\ trades[1].arbitrator = None /\ trades[2].arbitrator = None
    /\ trades[1].fee # trades[2].fee
    /\ instance["ACC_FEES"] = trades[1].fee + trades[2].fee
    /\ balance["alice"] = (trades[1].amount - trades[1].fee) + (trades[2].amount - trades[2].fee)

\* C7: a successful resolve_dispute acts on a Disputed trade, moves exactly
\* amount - fee from the escrow to the buyer under ReleaseToBuyer and to the seller
\* under ReleaseToSeller, to no other account, and adds exactly the trade's fee to
\* accumulated_fees.
C7_ResolvePaysParty ==
    [][Succeeded("resolve_dispute") =>
          LET trade == trades[last'.id]
              resolution == last'.events[1][3]
              to == CASE resolution = "ReleaseToBuyer" -> trade.buyer
                      [] resolution = "ReleaseToSeller" -> trade.seller
          IN
          /\ trade.status = "Disputed"
          /\ balance' = Paid(to, trade.amount - trade.fee)
          /\ instance'["ACC_FEES"] = instance["ACC_FEES"] + trade.fee]_vars
C7_Witness ==
    /\ last.op = "resolve_dispute" /\ last.result = "Ok"
    /\ last.events[1][3] = "ReleaseToBuyer"
    /\ payouts[last.id] = 1
    /\ trades[last.id].fee > 0
    /\ balance[trades[last.id].buyer] = MintAmount - trades[last.id].fee
    /\ balance[trades[last.id].seller] = 0

\* C8: a trade whose status is Disputed has an arbitrator bound, so a trade created
\* without one never enters Disputed and resolve_dispute never succeeds on it.
C8_DisputedHasArbitrator ==
    /\ \A id \in DOMAIN trades :
          trades[id].status = "Disputed" => trades[id].arbitrator # None
    /\ (last.op = "resolve_dispute" /\ last.result = "Ok")
          => trades[last.id].arbitrator # None
C8_Witness ==
    /\ last.op = "raise_dispute" /\ last.result # "Ok"
    /\ last.id \in DOMAIN trades
    /\ trades[last.id].arbitrator = None
    /\ trades[last.id].status = "Completed"
    /\ last.caller = trades[last.id].buyer

\* C9: on a Funded or Completed trade raise_dispute fails with ArbitratorNotRegistered
\* when no arbitrator is bound, whoever calls; with an arbitrator bound it fails with
\* Unauthorized for a caller that is neither buyer nor seller and succeeds, setting
\* Disputed, for the buyer or the seller; the failures change no state.
C9_RaiseDisputeErrors ==
    [][(/\ last'.op = "raise_dispute"
        /\ last'.id \in DOMAIN trades
        /\ trades[last'.id].status \in {"Funded", "Completed"})
          => LET trade == trades[last'.id] IN
             IF trade.arbitrator = None
             THEN last'.result = "ArbitratorNotRegistered" /\ StoreUnchanged
             ELSE IF last'.caller \notin {trade.buyer, trade.seller}
             THEN last'.result = "Unauthorized" /\ StoreUnchanged
             ELSE /\ last'.result = "Ok"
                  /\ trades' = [trades EXCEPT ![last'.id].status = "Disputed"]]_vars
C9_Witness ==
    /\ last.op = "raise_dispute" /\ last.result = "ArbitratorNotRegistered"
    /\ trades[last.id].status = "Funded"
    /\ last.caller = trades[last.id].seller

\* C10: the fee of a trade is the floor of amount * fee_bps / 10000 at the rate in
\* force when create_trade ran; no later step, update_fee included, changes it; and a
\* payout pays amount minus that stored fee and accrues that stored fee.
C10_FeePinned ==
    [][/\ Succeeded("create_trade") =>
             trades'[last'.id].fee =
                 (trades'[last'.id].amount * instance["FEE_BPS"]) \div 10000
       /\ \A id \in DOMAIN trades :
             id \in DOMAIN trades' /\ trades'[id].fee = trades[id].fee
       /\ (Succeeded("confirm_receipt") \/ Succeeded("resolve_dispute")) =>
             /\ balance'[Contract] =
                    balance[Contract] - (trades[last'.id].amount - trades[last'.id].fee)
             /\ instance'["ACC_FEES"] = instance["ACC_FEES"] + trades[last'.id].fee]_vars
\* a payout made after update_fee moved the rate away from the trade's
C10_Witness ==
    /\ last.op \in {"confirm_receipt", "resolve_dispute"} /\ last.result = "Ok"
    /\ payouts[last.id] = 1
    /\ trades[last.id].fee # (trades[last.id].amount * instance["FEE_BPS"]) \div 10000
    /\ instance["ACC_FEES"] = trades[last.id].fee

\* C11: a successful create_trade stores under the id it returns a trade that get_trade
\* reads back with that id, the seller, buyer, amount and arbitrator of the call, the
\* fee computed from the call and status Created; and no step ever changes a stored
\* trade's id, seller, buyer, amount, fee or arbitrator: only its status can change.
C11_RecordImmutable ==
    [][/\ Succeeded("create_trade") =>
              \A s \in Sellers, b \in Buyers, amt \in Amounts, arb \in OptArbitrators,
                 c \in Addresses :
                  create_trade(s, b, amt, arb, c) =>
                  /\ last'.id \in DOMAIN trades'
                  /\ trades'[last'.id] =
                         [id |-> last'.id, seller |-> s, buyer |-> b, amount |-> amt,
                          fee |-> (amt * get_fee_bps) \div BPS_DENOMINATOR,
                          arbitrator |-> arb, status |-> "Created"]
       /\ \A id \in DOMAIN trades :
              /\ id \in DOMAIN trades'
              /\ trades'[id] = [trades[id] EXCEPT !.status = trades'[id].status]]_vars
\* an arbitrated trade whose status has moved on, read back with the created fields
C11_Witness ==
    /\ last.op = "raise_dispute" /\ last.result = "Ok"
    /\ get_trade(last.id).status = "Disputed"
    /\ get_trade(last.id).id = last.id
    /\ get_trade(last.id).arbitrator = Some("carol")
    /\ get_trade(last.id).amount = 3

\* C12: trade ids are 1, 2, 3, ... without gaps or reuse: the k-th successful
\* create_trade returns k, also after earlier trades were cancelled or settled; the
\* stored trades are exactly those with ids 1..trade_counter, each under its own id;
\* and a create_trade that fails consumes no id.
C12_SequentialIds ==
    [][/\ is_initialized' =>
              /\ DOMAIN trades' = 1..instance'["COUNTER"]
              /\ \A id \in DOMAIN trades' : trades'[id].id = id
       /\ Succeeded("create_trade") =>
              /\ last'.id = Cardinality(DOMAIN trades) + 1
              /\ DOMAIN trades' = DOMAIN trades \cup {last'.id}
       /\ ~Succeeded("create_trade") =>
              /\ DOMAIN trades' = DOMAIN trades
              /\ is_initialized => instance'["COUNTER"] = instance["COUNTER"]]_vars
\* the third trade created after the first was cancelled and the second paid out
C12_Witness ==
    /\ last.op = "create_trade" /\ last.result = "Ok" /\ last.id = 3
    /\ get_trade_counter = 3
    /\ get_trade(1).status = "Cancelled"
    /\ payouts[2] >= 1

\* C13: a successful create_trade stores fee = floor(amount * fee_bps / 10000) at the
\* rate in force, which is at most amount; and when amount * fee_bps does not fit the
\* unsigned 64-bit range create_trade fails with Overflow and stores nothing, instead
\* of storing a fee computed from a wrapped product.
C13_FeeFloor ==
    [][/\ \A amt \in FeeAmounts :
              (is_initialized /\ create_trade("alice", "bob", amt, None, "alice")) =>
                  IF amt * get_fee_bps > U64_MAX
                  THEN last'.result = "Overflow" /\ StoreUnchanged
                  ELSE /\ last'.result = "Ok"
                       /\ LET fee == trades'[last'.id].fee IN
                          /\ fee * 10000 <= amt * get_fee_bps
                          /\ amt * get_fee_bps < (fee + 1) * 10000
       /\ \A id \in DOMAIN trades' : trades'[id].fee <= trades'[id].amount]_vars
\* a create_trade rejected with Overflow after a trade whose fee was rounded down
C13_Witness ==
    /\ last.op = "create_trade" /\ last.result = "Overflow"
    /\ has_trade(1) /\ get_trade(1).amount = 13 /\ get_trade(1).fee = 6
    /\ get_fee_bps = 5000

\* C14: withdraw_fees by the admin fails with NoFeesToWithdraw, changing nothing, when
\* accumulated_fees is 0; otherwise it transfers exactly accumulated_fees from the
\* escrow to the given recipient and sets accumulated_fees to 0; and when that
\* transfer fails, accumulated_fees (and everything else) keeps its value.
C14_WithdrawFees ==
    [][(last'.op = "withdraw_fees" /\ is_initialized /\ last'.caller = get_admin) =>
          IF get_accumulated_fees = 0
          THEN last'.result = "NoFeesToWithdraw" /\ StoreUnchanged
          ELSE IF last'.result = "Ok"
          THEN /\ \A to \in Recipients :
                      withdraw_fees(to, last'.caller) =>
                          balance' = Paid(to, get_accumulated_fees)
               /\ instance' = [instance EXCEPT !["ACC_FEES"] = 0]
               /\ UNCHANGED <<trades, arbitrators>>
          ELSE /\ last'.result = "TransferFailed"
               /\ balance[Contract] < get_accumulated_fees
               /\ StoreUnchanged]_vars
\* the accrued fee of a settled trade withdrawn to an account that is not the admin
C14_Witness ==
    /\ last.op = "withdraw_fees" /\ last.result = "Ok"
    /\ last.events = << <<"fees_out", 2, "carol">> >>
    /\ balance["carol"] = 2
    /\ get_accumulated_fees = 0

\* C15: the arbitrator registry is a set changed only by the admin's register and
\* remove: registering a registered address and removing an unregistered one succeed
\* and leave it as it is, a removed address can be registered again, and
\* is_arbitrator_registered(a) is true exactly when the last successful register or
\* remove of a was a register.
C15_Registry ==
    [][/\ (last'.op \in {"register_arbitrator", "remove_arbitrator"}
             /\ is_initialized /\ last'.caller = get_admin) => last'.result = "Ok"
       /\ \A a \in RegistryArgs :
             is_arbitrator_registered(a)' =
                 IF Succeeded("register_arbitrator") /\ last'.events[1][2] = a THEN TRUE
                 ELSE IF Succeeded("remove_arbitrator") /\ last'.events[1][2] = a THEN FALSE
                 ELSE is_arbitrator_registered(a)]_vars
\* an address removed while another one stays registered
C15_Witness ==
    /\ last.op = "remove_arbitrator" /\ last.result = "Ok"
    /\ last.events = << <<"arb_rem", "carol">> >>
    /\ ~is_arbitrator_registered("carol")
    /\ is_arbitrator_registered("bob")

\* C16: initialize succeeds at most once.  Once the contract is initialized every
\* initialize, whatever its arguments and caller, fails with AlreadyInitialized and
\* changes nothing; the admin and the token stay those of the one successful
\* initialize through every later step; and no initialize resets the trade counter or
\* accumulated_fees.
C16_InitializeOnce ==
    [][/\ Succeeded("initialize") =>
              /\ ~is_initialized
              /\ \A admin \in InitAdmins, t \in InitTokens, f \in FeeArgs :
                     initialize(admin, t, f, last'.caller) =>
                         get_admin' = admin /\ get_usdc_token' = t
       /\ is_initialized =>
              /\ is_initialized'
              /\ get_admin' = get_admin
              /\ get_usdc_token' = get_usdc_token
              /\ last'.op = "initialize" =>
                     /\ last'.result = "AlreadyInitialized"
                     /\ StoreUnchanged
                     /\ get_trade_counter' = get_trade_counter
                     /\ get_accumulated_fees' = get_accumulated_fees]_vars
\* initialize rejected for a caller other than the admin once a trade exists and a
\* fee has accrued
C16_Witness ==
    /\ last.op = "initialize" /\ last.result = "AlreadyInitialized"
    /\ last.caller = "alice" /\ get_admin = "admin"
    /\ get_trade_counter = 1
    /\ get_accumulated_fees > 0

\* C17: fee_bps is at most 10000 whenever the contract is initialized.  initialize on
\* an uninitialized contract and update_fee on an initialized one fail with
\* InvalidFeeBps for a rate above 10000, whoever calls, and change nothing (the
\* contract stays uninitialized, or keeps its rate); and after a successful
\* update_fee(b) get_platform_fee_bps returns b.
C17_FeeBpsBounded ==
    [][/\ is_initialized' => get_platform_fee_bps' <= 10000
       /\ last'.op = "initialize" /\ ~is_initialized =>
              \A admin \in Admins, t \in Tokens, f \in FeeArgs :
                  (f > 10000 /\ initialize(admin, t, f, last'.caller)) =>
                      last'.result = "InvalidFeeBps" /\ StoreUnchanged
       /\ last'.op = "update_fee" /\ is_initialized =>
              \A f \in FeeArgs :
                  update_fee(f, last'.caller) =>
                      IF f > 10000
                      THEN last'.result = "InvalidFeeBps" /\ StoreUnchanged
                      ELSE last'.result = "Ok" => get_platform_fee_bps' = f]_vars
\* update_fee rejected for a rate above 10000 after an earlier update_fee took effect
C17_Witness ==
    /\ last.op = "update_fee" /\ last.result = "InvalidFeeBps"
    /\ last.caller = get_admin
    /\ get_trade_counter = 1
    /\ get_trade(1).fee # (get_trade(1).amount * get_platform_fee_bps) \div BPS_DENOMINATOR

\* C18: on an initialized contract create_trade fails with InvalidAmount for amount 0;
\* fails for an arbitrator that is not registered at the moment of the call, with
\* ArbitratorNotRegistered when the amount is positive and the seller authorizes;
\* fails when amount * fee_bps overflows, with Overflow when the earlier checks pass;
\* and a failed create_trade stores no trade and leaves the counter.  So every stored
\* trade has a positive amount and an arbitrator that was absent or registered when
\* the trade was created.
C18_CreateGuards ==
    [][/\ last'.op = "create_trade" /\ is_initialized =>
              \A s \in Sellers, b \in Buyers, amt \in Amounts, arb \in OptArbitrators :
                  create_trade(s, b, amt, arb, last'.caller) =>
                      LET unregistered == arb # None /\ ~has_arbitrator(Unwrap(arb))
                          overflows == amt * get_fee_bps > U64_MAX
                          authorized == s = last'.caller
                      IN
                      /\ amt = 0 => last'.result = "InvalidAmount"
                      /\ unregistered => last'.result # "Ok"
                      /\ amt > 0 /\ authorized /\ unregistered =>
                             last'.result = "ArbitratorNotRegistered"
                      /\ overflows => last'.result # "Ok"
                      /\ amt > 0 /\ authorized /\ ~unregistered /\ overflows =>
                             last'.result = "Overflow"
                      /\ last'.result # "Ok" =>
                             /\ StoreUnchanged
                             /\ DOMAIN trades' = DOMAIN trades
                             /\ get_trade_counter' = get_trade_counter
       /\ \A id \in DOMAIN trades' : trades'[id].amount > 0
       /\ Succeeded("create_trade") =>
              \/ trades'[last'.id].arbitrator = None
              \/ has_arbitrator(Unwrap(trades'[last'.id].arbitrator))]_vars
\* create_trade rejected for an arbitrator that was registered and then removed,
\* while the trade created with that arbitrator stays stored
C18_Witness ==
    /\ last.op = "create_trade" /\ last.result = "ArbitratorNotRegistered"
    /\ get_trade_counter = 1
    /\ DOMAIN trades = {1}
    /\ get_trade(1).arbitrator = Some("carol")
    /\ ~has_arbitrator("carol")

\* C19: every stored trade has a seller different from its buyer: create_trade never
\* produces a trade with the same account on both sides.
C19_DistinctParties ==
    \A id \in DOMAIN trades : get_trade(id).seller # get_trade(id).buyer

\* the event each operation publishes (events.rs:5-63); initialize has none
EventKind ==
    [create_trade |-> "created", fund_trade |-> "funded", complete_trade |-> "complete",
     confirm_receipt |-> "confirm", raise_dispute |-> "dispute",
     resolve_dispute |-> "resolved", cancel_trade |-> "cancel",
     register_arbitrator |-> "arb_reg", remove_arbitrator |-> "arb_rem",
     update_fee |-> "fee_upd", withdraw_fees |-> "fees_out"]
PublishedOwnEvent ==
    /\ Len(last.events) = 1
    /\ last.op \in DOMAIN EventKind => last.events[1][1] = EventKind[last.op]

Held == {id \in DOMAIN trades :
            /\ get_trade(id).status \in {"Funded", "Completed", "Disputed"}
            /\ payouts[id] = 0}
RECURSIVE SumAmount(_)
SumAmount(ids) ==
    IF ids = {} THEN 0
    ELSE LET id == CHOOSE i \in ids : TRUE IN get_trade(id).amount + SumAmount(ids \ {id})

\* C21: escrow conservation: once initialized, the tokens the contract holds equal
\* the sum of amount over the trades funded and not yet paid out plus
\* accumulated_fees, so they cover accumulated_fees and every pending payout.
C21_EscrowConservation ==
    is_initialized => balance[Contract] = SumAmount(Held) + get_accumulated_fees

TransferOps == {"fund_trade", "confirm_receipt", "resolve_dispute", "withdraw_fees"}
\* the guards of the invocation recorded in last': initialized, and the admin with
\* nonzero fees (withdraw_fees) or an existing trade in the required status with the
\* required account calling
GuardsPassed ==
    /\ is_initialized
    /\ IF last'.op = "withdraw_fees"
       THEN last'.caller = get_admin /\ get_accumulated_fees > 0
       ELSE /\ last'.id \in DOMAIN trades
            /\ trades[last'.id].status \in RequiredStatus(last'.op)
            /\ last'.caller \in RequiredAccount
TransferSource == IF last'.op = "fund_trade" THEN trades[last'.id].buyer ELSE Contract
TransferAmount ==
    CASE last'.op = "fund_trade" -> trades[last'.id].amount
      [] last'.op \in {"confirm_receipt", "resolve_dispute"} ->
              trades[last'.id].amount - trades[last'.id].fee
      [] last'.op = "withdraw_fees" -> get_accumulated_fees

\* C22: in fund_trade, confirm_receipt, resolve_dispute and withdraw_fees a failed
\* guard is reported whether or not the transfer could be made, and changes nothing;
\* with the guards passed, a transfer the source cannot cover aborts the operation
\* with trades, accumulated_fees, the counter and all balances unchanged; otherwise
\* the operation succeeds and makes its write (status Funded, the fee accrued,
\* accumulated_fees reset).
C22_TransferAfterGuards ==
    [][last'.op \in TransferOps =>
          IF ~GuardsPassed
          THEN last'.result \notin {"Ok", "TransferFailed"} /\ StoreUnchanged
          ELSE IF balance[TransferSource] < TransferAmount
          THEN last'.result = "TransferFailed" /\ StoreUnchanged
          ELSE /\ last'.result = "Ok"
               /\ CASE last'.op = "fund_trade" -> trades'[last'.id].status = "Funded"
                    [] last'.op = "withdraw_fees" -> get_accumulated_fees' = 0
                    [] OTHER -> get_accumulated_fees' =
                                    get_accumulated_fees + trades[last'.id].fee]_vars
\* fund_trade aborted because the buyer holds less than the amount
C22_Witness ==
    /\ last.op = "fund_trade" /\ last.result = "TransferFailed"
    /\ get_trade(last.id).status = "Created"
    /\ last.caller = get_trade(last.id).buyer
    /\ get_trade(last.id).buyer # get_trade(last.id).seller
    /\ balance[get_trade(last.id).buyer] < get_trade(last.id).amount

\* C23: on an initialized contract accumulated_fees changes in three ways only: a
\* successful confirm_receipt or resolve_dispute adds the settled trade's fee, a
\* successful withdraw_fees sets it to 0; every other step, failed calls included,
\* leaves it as it is; and a settlement whose addition would exceed u64::MAX fails
\* with Overflow, changing nothing, instead of storing a wrapped sum.
Settles == Succeeded("confirm_receipt") \/ Succeeded("resolve_dispute")
C23_AccumulatedFeesFrame ==
    [][is_initialized =>
         /\ get_accumulated_fees' <= U64_MAX
         /\ get_accumulated_fees' =
                IF Settles THEN get_accumulated_fees + trades[last'.id].fee
                ELSE IF Succeeded("withdraw_fees") THEN 0
                ELSE get_accumulated_fees
         /\ (/\ last'.op \in {"confirm_receipt", "resolve_dispute"}
             /\ GuardsPassed
             /\ balance[Contract] >= TransferAmount
             /\ get_accumulated_fees + trades[last'.id].fee > U64_MAX)
                => last'.result = "Overflow" /\ StoreUnchanged]_vars
\* a settlement rejected with Overflow, accumulated_fees within one fee of u64::MAX
C23_Witness ==
    /\ last.op = "confirm_receipt" /\ last.result = "Overflow"
    /\ get_accumulated_fees = LastAccruals * MintAmount
    /\ get_accumulated_fees + get_trade(last.id).fee > U64_MAX

\* C24: while the contract is not initialized every mutating operation other than
\* initialize fails with NotInitialized, whatever its arguments and caller, and
\* changes nothing.
C24_NotInitialized ==
    [][(~is_initialized /\ last'.op # "initialize") =>
          /\ last'.result = "NotInitialized"
          /\ StoreUnchanged
          /\ ~is_initialized']_vars
\* resolve_dispute rejected before initialize
C24_Witness ==
    /\ ~is_initialized
    /\ last.op = "resolve_dispute" /\ last.result = "NotInitialized"
    /\ last.caller = "carol"
    /\ trades = [i \in {} |-> 0]

\* C25: while the contract is not initialized every read-only accessor (get_trade,
\* get_accumulated_fees, get_platform_fee_bps, is_arbitrator_registered) fails with
\* NotInitialized, instead of returning a value, a default or another error.
C25_AccessorsNotInitialized ==
    (~is_initialized /\ last.op \in Accessors) => last.result = "NotInitialized"

\* C26: the arbitrator bound to a trade keeps its power whether or not it is still
\* registered: on a Funded or Completed trade with an arbitrator raise_dispute
\* succeeds for the buyer and the seller, and on a Disputed trade resolve_dispute
\* authorized by the bound arbitrator succeeds whenever the escrow covers the payout;
\* and no operation other than create_trade fails with ArbitratorNotRegistered
\* because of the registry: only raise_dispute and resolve_dispute do, on a trade
\* that has no arbitrator.
C26_ArbitratorKeepsPower ==
    [][/\ (/\ last'.op = "raise_dispute"
           /\ last'.id \in DOMAIN trades
           /\ trades[last'.id].status \in {"Funded", "Completed"}
           /\ trades[last'.id].arbitrator # None
           /\ last'.caller \in {trades[last'.id].buyer, trades[last'.id].seller})
             => /\ last'.result = "Ok"
                /\ trades'[last'.id].status = "Disputed"
       /\ (/\ last'.op = "resolve_dispute"
           /\ last'.id \in DOMAIN trades
           /\ trades[last'.id].status = "Disputed"
           /\ last'.caller \in trades[last'.id].arbitrator
           /\ balance[Contract] >= trades[last'.id].amount - trades[last'.id].fee)
             => /\ last'.result = "Ok"
                /\ get_accumulated_fees' = get_accumulated_fees + trades[last'.id].fee
       /\ (last'.op # "create_trade" /\ last'.result = "ArbitratorNotRegistered")
             => /\ last'.op \in {"raise_dispute", "resolve_dispute"}
                /\ trades[last'.id].arbitrator = None]_vars
\* a dispute resolved by an arbitrator that is no longer registered
C26_Witness ==
    /\ last.op = "resolve_dispute" /\ last.result = "Ok"
    /\ last.caller = "carol"
    /\ get_trade(last.id).arbitrator = Some("carol")
    /\ ~has_arbitrator("carol")
    /\ payouts[last.id] = 1
====
